---- MODULE Spec2Model ----
(***************************************************************************)
(* A model of scripts/extract-tsdoc.py: the documentation-comment          *)
(* extraction and interactive-rewrite tool.                                *)
(*                                                                         *)
(* Text is modelled as a sequence of tokens.  Every token stands for a     *)
(* piece of text that the script's scanners treat as a unit:               *)
(*   "D1" "D2" "D3"  a documentation block, one match of /\*\*.*?\*/       *)
(*                   (equal tokens are byte-identical blocks)              *)
(*   "n"             a line break            "w"  other whitespace         *)
(*   "a"             a word of code          ";"  a statement terminator   *)
(*   "{" "}"         braces                                                *)
(*   "nsA{" "nsB{"   a match of namespace\s+A\s*\{ (its brace included)    *)
(*   "F"             a triple-backtick fence "L"  a language tag           *)
(*   "OK"            the backend's literal answer OK                       *)
(***************************************************************************)
EXTENDS Integers, Sequences, FiniteSets, TLC

VARIABLES
    \* command line (sys.argv) and the file on disk
    file_path, yolo, namespace, filter_text, disk,
    \* locals of __main__
    content, content_to_process, matches, i, tsdoc_comment, declaration,
    choice, modified_content, pc, exit_code,
    \* history of the run (not program state): scope offset, backend outcome
    \* of the last call, event log, number of writes to the file
    scope_off, outcome, log, writes,
    \* inputs and results of the functions checked on their own
    fn_pc, fn_in, fn_arg, fence_out, ns_out, decl_out

vars == <<file_path, yolo, namespace, filter_text, disk,
          content, content_to_process, matches, i, tsdoc_comment, declaration,
          choice, modified_content, pc, exit_code,
          scope_off, outcome, log, writes,
          fn_pc, fn_in, fn_arg, fence_out, ns_out, decl_out>>

sessionVars == <<file_path, yolo, namespace, filter_text, disk,
          content, content_to_process, matches, i, tsdoc_comment, declaration,
          choice, modified_content, pc, exit_code,
          scope_off, outcome, log, writes>>

fnVars == <<fn_pc, fn_in, fn_arg, fence_out, ns_out, decl_out>>

----------------------------------------------------------------------------
\* Bounds of the model

\* longest file of a run without --namespace
MaxLen == 3
\* longest file of a run with --namespace
MaxNsLen == 5
\* longest backend response given to remove_markdown_fences on its own
MaxFenceLen == 6
\* longest text given to find_namespace_content on its own
MaxScanLen == 7
\* longest scope given to the declaration matcher on its own
MaxDeclLen == 5

BSeq(S, n) == UNION {[1..k -> S] : k \in 0..n}

DocTokens == {"D1", "D2", "D3"}

IsSpace(t) == t \in {"n", "w"}

IsOpen(t) == t \in {"{", "nsA{", "nsB{"}

Min(S) == CHOOSE x \in S : \A y \in S : x <= y

\* first index k >= from with s[k] = t, 0 when there is none
IndexOf(s, t, from) ==
    LET S == {k \in from..Len(s) : s[k] = t}
    IN IF S = {} THEN 0 ELSE Min(S)

\* Python's None, and the truth value of a string or None
None == <<"<None>">>

Truthy(v) == v # None /\ v # <<>>

----------------------------------------------------------------------------
\* str.strip, str.split('\n'), '\n'.join

RECURSIVE LStrip(_)
LStrip(s) == IF s # <<>> /\ IsSpace(Head(s)) THEN LStrip(Tail(s)) ELSE s

RECURSIVE RStrip(_)
RStrip(s) ==
    IF s # <<>> /\ IsSpace(s[Len(s)]) THEN RStrip(SubSeq(s, 1, Len(s) - 1)) ELSE s

strip(s) == RStrip(LStrip(s))

RECURSIVE split(_)
split(s) ==
    LET k == IndexOf(s, "n", 1)
    IN IF k = 0 THEN <<s>>
       ELSE <<SubSeq(s, 1, k - 1)>> \o split(SubSeq(s, k + 1, Len(s)))

RECURSIVE join(_)
join(lines) ==
    IF lines = <<>> THEN <<>>
    ELSE IF Len(lines) = 1 THEN lines[1]
    ELSE lines[1] \o <<"n">> \o join(Tail(lines))

\* str.lower on an answer typed at a prompt
lower(inp) == CASE inp = "Y" -> "y" [] inp = "N" -> "n" [] OTHER -> inp

----------------------------------------------------------------------------
\* remove_markdown_fences (lines 6-22)

remove_markdown_fences(text0) ==
    LET text == strip(text0)
        startswith == text # <<>> /\ text[1] = "F"
        endswith == text # <<>> /\ text[Len(text)] = "F"
    IN IF startswith /\ endswith
       THEN LET lines == split(text)
            IN IF Len(lines) > 1
               THEN LET l1 == IF lines[1] # <<>> /\ lines[1][1] = "F"
                              THEN Tail(lines) ELSE lines
                        l2 == IF l1 # <<>> /\ strip(l1[Len(l1)]) = <<"F">>
                              THEN SubSeq(l1, 1, Len(l1) - 1) ELSE l1
                    IN join(l2)
               \* text[3:-3].strip(): a text that is one fence alone is
               \* three characters long and its slice is empty
               ELSE strip(IF Len(text) = 1 THEN <<>>
                          ELSE SubSeq(text, 2, Len(text) - 1))
       ELSE text

----------------------------------------------------------------------------
\* run_task (lines 25-71).  The backend is an external process: o.kind is
\* "notfound" (FileNotFoundError), "nonzero" (CalledProcessError) or "exit0"
\* with its standard output.  The result is the value returned, or an
\* exception that leaves the function.

Returned(v) == [raised |-> FALSE, value |-> v]

Raised == [raised |-> TRUE, value |-> None]

run_task_UncaughtProcessError(o) ==
    IF o.kind = "exit0"
    THEN LET output == strip(o.stdout)
         IN IF output # <<"OK">> THEN Returned(output) ELSE Returned(None)
    ELSE IF o.kind = "notfound" THEN Returned(None)
    ELSE Raised

run_task_ReturnsOK(o) ==
    IF o.kind = "exit0" THEN Returned(strip(o.stdout)) ELSE Returned(None)

run_task(o) ==
    IF o.kind = "exit0"
    THEN LET output == strip(o.stdout)
         IN IF output # <<"OK">> THEN Returned(output) ELSE Returned(None)
    ELSE Returned(None)

----------------------------------------------------------------------------
\* find_namespace_content (lines 99-123)

NsToken(name) == CASE name = "A" -> "nsA{" [] name = "B" -> "nsB{"

\* lines 110-121: the scan from index k with brace_count open braces; the
\* index of the brace that brings the count to 0, or 0 when the text ends
\* first (the for loop's else branch)
RECURSIVE MatchClose_NoElse(_, _, _)
MatchClose_NoElse(s, k, brace_count) ==
    IF k > Len(s) THEN Len(s) + 1
    ELSE LET c == IF IsOpen(s[k]) THEN brace_count + 1
                  ELSE IF s[k] = "}" THEN brace_count - 1
                  ELSE brace_count
         IN IF c = 0 THEN k ELSE MatchClose_NoElse(s, k + 1, c)

RECURSIVE MatchClose_FirstClose(_, _, _)
MatchClose_FirstClose(s, k, brace_count) ==
    IF k > Len(s) THEN 0
    ELSE IF s[k] = "}" THEN k ELSE MatchClose_FirstClose(s, k + 1, brace_count)

RECURSIVE MatchClose(_, _, _)
MatchClose(s, k, brace_count) ==
    IF k > Len(s) THEN 0
    ELSE LET c == IF IsOpen(s[k]) THEN brace_count + 1
                  ELSE IF s[k] = "}" THEN brace_count - 1
                  ELSE brace_count
         IN IF c = 0 THEN k ELSE MatchClose(s, k + 1, c)

NsNotFound == [found |-> FALSE, text |-> <<>>, off |-> 0]

\* The loop over the path's segments.  off is not computed by the code: it
\* is the number of tokens of the file that precede current_content.
RECURSIVE FindNs(_, _, _)
FindNs(current_content, namespaces, off) ==
    IF namespaces = <<>>
    THEN [found |-> TRUE, text |-> current_content, off |-> off]
    ELSE LET m == IndexOf(current_content, NsToken(Head(namespaces)), 1)
         IN IF m = 0 THEN NsNotFound
            ELSE LET j == MatchClose(current_content, m + 1, 1)
                 IN IF j = 0 THEN NsNotFound
                    ELSE FindNs(SubSeq(current_content, m + 1, j - 1),
                                Tail(namespaces), off + m)

find_namespace_content(text, namespace_path) ==
    LET r == FindNs(text, namespace_path, 0)
    IN IF r.found THEN r.text ELSE None

----------------------------------------------------------------------------
\* The documentation blocks of the scope (lines 163-164) and the declaration
\* paired with block idx (lines 181-194).  Indices are 1-based: Python's
\* match.start() is ms[idx] - 1 and match.end() is ms[idx].

RECURSIVE finditer(_, _)
finditer(s, from) ==
    LET S == {k \in from..Len(s) : s[k] \in DocTokens}
    IN IF S = {} THEN <<>> ELSE <<Min(S)>> \o finditer(s, Min(S) + 1)

RECURSIVE SkipSpace(_, _)
SkipSpace(s, k) == IF k <= Len(s) /\ IsSpace(s[k]) THEN SkipSpace(s, k + 1) ELSE k

declaration_start(s, ms, idx) == SkipSpace(s, ms[idx] + 1)

HasDeclaration(s, ms, idx) == declaration_start(s, ms, idx) <= Len(s)

next_tsdoc_start(s, ms, idx) == IF idx + 1 <= Len(ms) THEN ms[idx + 1] ELSE Len(s) + 1

declaration_end_NoClamp(s, ms, idx) ==
    LET nl == IndexOf(s, "n", declaration_start(s, ms, idx))
    IN IF nl = 0 THEN next_tsdoc_start(s, ms, idx) ELSE nl

\* the index just after the declaration's last token
declaration_end(s, ms, idx) ==
    LET nl == IndexOf(s, "n", declaration_start(s, ms, idx))
    IN IF nl = 0 \/ nl > next_tsdoc_start(s, ms, idx)
       THEN next_tsdoc_start(s, ms, idx) ELSE nl

Declaration(s, ms, idx) ==
    strip(SubSeq(s, declaration_start(s, ms, idx), declaration_end(s, ms, idx) - 1))

\* str.replace(old, new, 1) for old a documentation block (lines 219, 230)
replace(s, old, new) ==
    LET k == IndexOf(s, old, 1)
    IN IF k = 0 THEN s ELSE SubSeq(s, 1, k - 1) \o new \o SubSeq(s, k + 1, Len(s))

----------------------------------------------------------------------------
\* The session: __main__ (lines 125-257)

\* files of a run without --namespace, and of a run with it
TextAlphabet == {"D1", "D2", "a", "n"}

NsAlphabet == {"nsA{", "nsB{", "}", "D1", "a"}

\* what the operator may type at a prompt
Inputs == {"y", "Y", "n", "q", "d", "", "x"}

\* what the backend may print when it exits with status 0
Stdouts == {<<"OK", "n">>, <<>>, <<"D2", "n">>, <<"F", "L", "n", "D3", "n", "F", "n">>}

Outcomes ==
    {[kind |-> "notfound", stdout |-> <<>>], [kind |-> "nonzero", stdout |-> <<>>]}
    \cup {[kind |-> "exit0", stdout |-> out] : out \in Stdouts}

\* what the backend answered, as the operator would describe it
Answer(o) ==
    IF o.kind # "exit0" THEN o.kind
    ELSE IF strip(o.stdout) = <<"OK">> THEN "OK"
    ELSE IF strip(o.stdout) = <<>> THEN "empty"
    ELSE "text"

\* one entry of the history: candidate (0: none), what happened, the backend's
\* answer or the operator's, and the text put in the buffer
EventWith(k, e, arg, text) == [cand |-> k, ev |-> e, arg |-> arg, text |-> text]

Event(k, e, arg) == EventWith(k, e, arg, <<>>)

FnIdle ==
    /\ fn_pc = "idle"
    /\ fn_in = <<>>
    /\ fn_arg = <<>>
    /\ fence_out = <<>>
    /\ ns_out = NsNotFound
    /\ decl_out = <<>>

\* The state as the interpreter enters __main__: the arguments are given, the
\* file is on disk, no local is bound yet.
Init ==
    /\ \/ /\ file_path = "f"
          /\ namespace = <<>>
          /\ yolo \in BOOLEAN
          /\ filter_text \in {"", "D1"}
          /\ disk \in BSeq(TextAlphabet, MaxLen)
       \/ /\ file_path = "f"
          /\ namespace \in {<<"A">>, <<"A", "B">>}
          /\ yolo \in BOOLEAN
          /\ filter_text = ""
          /\ disk \in BSeq(NsAlphabet, MaxNsLen)
       \/ /\ file_path = ""
          /\ namespace = <<>>
          /\ yolo = FALSE
          /\ filter_text = ""
          /\ disk \in BSeq(TextAlphabet, 1)
    /\ content = <<>>
    /\ content_to_process = <<>>
    /\ matches = <<>>
    /\ i = 1
    /\ tsdoc_comment = ""
    /\ declaration = <<>>
    /\ choice = "unset"
    /\ modified_content = <<>>
    /\ pc = "start"
    /\ exit_code = 0
    /\ scope_off = 0
    /\ outcome = "none"
    /\ log = <<>>
    /\ writes = 0
    /\ FnIdle

\* lines 144-146: no file path on the command line
Usage ==
    /\ pc = "start"
    /\ file_path = ""
    /\ pc' = "exit"
    /\ exit_code' = 1
    /\ UNCHANGED <<file_path, yolo, namespace, filter_text, disk, content,
                   content_to_process, matches, i, tsdoc_comment, declaration,
                   choice, modified_content, scope_off, outcome, log, writes>>
    /\ UNCHANGED fnVars

\* lines 148-157: the file is read, --namespace names no region of it
NamespaceNotFound ==
    /\ pc = "start"
    /\ file_path # ""
    /\ namespace # <<>>
    /\ find_namespace_content(disk, namespace) = None
    /\ content' = disk
    /\ pc' = "exit"
    /\ exit_code' = 1
    /\ UNCHANGED <<file_path, yolo, namespace, filter_text, disk,
                   content_to_process, matches, i, tsdoc_comment, declaration,
                   choice, modified_content, scope_off, outcome, log, writes>>
    /\ UNCHANGED fnVars

\* lines 148-166: the file is read, the scope chosen, the blocks located
Begin ==
    /\ pc = "start"
    /\ file_path # ""
    /\ namespace # <<>> => find_namespace_content(disk, namespace) # None
    /\ content' = disk
    /\ content_to_process' =
           IF namespace # <<>> THEN find_namespace_content(disk, namespace) ELSE disk
    /\ scope_off' = IF namespace # <<>> THEN FindNs(disk, namespace, 0).off ELSE 0
    /\ matches' = finditer(content_to_process', 1)
    /\ modified_content' = disk
    /\ i' = 1
    /\ pc' = "loop"
    /\ UNCHANGED <<file_path, yolo, namespace, filter_text, disk, tsdoc_comment,
                   declaration, choice, exit_code, outcome, log, writes>>
    /\ UNCHANGED fnVars

\* line 178: filter_text not in tsdoc_comment.  The filter is the text of one
\* block, and no block's text is part of another's.
FilteredOut(k) == filter_text # "" /\ filter_text # content_to_process[matches[k]]

\* lines 167-179: the block is dropped by --filter
Filtered ==
    /\ pc = "loop"
    /\ i <= Len(matches)
    /\ FilteredOut(i)
    /\ i' = i + 1
    /\ tsdoc_comment' = content_to_process[matches[i]]
    /\ log' = Append(log, Event(i, "filtered", ""))
    /\ UNCHANGED <<file_path, yolo, namespace, filter_text, disk, content,
                   content_to_process, matches, declaration, choice,
                   modified_content, pc, exit_code, scope_off, outcome, writes>>
    /\ UNCHANGED fnVars

\* lines 181-185: only whitespace follows the block up to the end of the scope
NoDeclaration ==
    /\ pc = "loop"
    /\ i <= Len(matches)
    /\ ~FilteredOut(i)
    /\ ~HasDeclaration(content_to_process, matches, i)
    /\ i' = i + 1
    /\ tsdoc_comment' = content_to_process[matches[i]]
    /\ log' = Append(log, Event(i, "nodecl", ""))
    /\ UNCHANGED <<file_path, yolo, namespace, filter_text, disk, content,
                   content_to_process, matches, declaration, choice,
                   modified_content, pc, exit_code, scope_off, outcome, writes>>
    /\ UNCHANGED fnVars

\* lines 186-202: interactive mode shows the block and its declaration
Display ==
    /\ pc = "loop"
    /\ i <= Len(matches)
    /\ ~FilteredOut(i)
    /\ HasDeclaration(content_to_process, matches, i)
    /\ ~yolo
    /\ tsdoc_comment' = content_to_process[matches[i]]
    /\ declaration' = Declaration(content_to_process, matches, i)
    /\ pc' = "prompt"
    /\ log' = Append(log, Event(i, "display", ""))
    /\ UNCHANGED <<file_path, yolo, namespace, filter_text, disk, content,
                   content_to_process, matches, i, choice, modified_content,
                   exit_code, scope_off, outcome, writes>>
    /\ UNCHANGED fnVars

\* lines 186-194, 224-225: unattended mode announces the declaration
Announce ==
    /\ pc = "loop"
    /\ i <= Len(matches)
    /\ ~FilteredOut(i)
    /\ HasDeclaration(content_to_process, matches, i)
    /\ yolo
    /\ tsdoc_comment' = content_to_process[matches[i]]
    /\ declaration' = Declaration(content_to_process, matches, i)
    /\ pc' = "run_task"
    /\ UNCHANGED <<file_path, yolo, namespace, filter_text, disk, content,
                   content_to_process, matches, i, choice, modified_content,
                   exit_code, scope_off, outcome, log, writes>>
    /\ UNCHANGED fnVars

\* lines 204-209: an answer that is none of y, n, q, d is asked again
PromptInvalid ==
    /\ pc = "prompt"
    /\ \E inp \in Inputs :
          /\ lower(inp) \notin {"y", "n", "q", "d"}
          /\ choice' = lower(inp)
    /\ UNCHANGED <<file_path, yolo, namespace, filter_text, disk, content,
                   content_to_process, matches, i, tsdoc_comment, declaration,
                   modified_content, pc, exit_code, scope_off, outcome, log,
                   writes>>
    /\ UNCHANGED fnVars

\* lines 211-215: y or d goes on to the proposer (d after reading a draft)
PromptRun ==
    /\ pc = "prompt"
    /\ \E inp \in Inputs :
          /\ lower(inp) \in {"y", "d"}
          /\ choice' = lower(inp)
    /\ pc' = "run_task"
    /\ UNCHANGED <<file_path, yolo, namespace, filter_text, disk, content,
                   content_to_process, matches, i, tsdoc_comment, declaration,
                   modified_content, exit_code, scope_off, outcome, log, writes>>
    /\ UNCHANGED fnVars

\* lines 211, 221: n falls through both branches to the next block
PromptSkip ==
    /\ pc = "prompt"
    /\ \E inp \in Inputs :
          /\ lower(inp) = "n"
          /\ choice' = lower(inp)
    /\ i' = i + 1
    /\ pc' = "loop"
    /\ log' = Append(log, Event(i, "skipped", ""))
    /\ UNCHANGED <<file_path, yolo, namespace, filter_text, disk, content,
                   content_to_process, matches, tsdoc_comment, declaration,
                   modified_content, exit_code, scope_off, outcome, writes>>
    /\ UNCHANGED fnVars

PromptQuit_Continue ==
    /\ pc = "prompt"
    /\ \E inp \in Inputs :
          /\ lower(inp) = "q"
          /\ choice' = lower(inp)
    /\ i' = i + 1
    /\ pc' = "loop"
    /\ log' = Append(log, Event(i, "quit", ""))
    /\ UNCHANGED <<file_path, yolo, namespace, filter_text, disk, content,
                   content_to_process, matches, tsdoc_comment, declaration,
                   modified_content, exit_code, scope_off, outcome, writes>>
    /\ UNCHANGED fnVars

\* lines 221-223: q leaves the loop
PromptQuit ==
    /\ pc = "prompt"
    /\ \E inp \in Inputs :
          /\ lower(inp) = "q"
          /\ choice' = lower(inp)
    /\ pc' = "final"
    /\ log' = Append(log, Event(i, "quit", ""))
    /\ UNCHANGED <<file_path, yolo, namespace, filter_text, disk, content,
                   content_to_process, matches, i, tsdoc_comment, declaration,
                   modified_content, exit_code, scope_off, outcome, writes>>
    /\ UNCHANGED fnVars

\* lines 215-219 and 226-230: the proposer is called and its result, when
\* there is one, replaces the block in the working buffer.  An exception that
\* run_task lets through ends the process with a traceback.
RunTask ==
    /\ pc = "run_task"
    /\ \E o \in Outcomes :
          LET new_tsdoc == run_task(o)
          IN /\ outcome' = Answer(o)
             /\ IF new_tsdoc.raised
                THEN /\ pc' = "exit"
                     /\ exit_code' = 1
                     /\ log' = Append(log, Event(i, "call", Answer(o)))
                     /\ UNCHANGED <<i, modified_content>>
                ELSE /\ pc' = "loop"
                     /\ i' = i + 1
                     /\ exit_code' = exit_code
                     /\ IF Truthy(new_tsdoc.value)
                        THEN /\ modified_content' =
                                   replace(modified_content, tsdoc_comment,
                                           remove_markdown_fences(new_tsdoc.value))
                             /\ log' = log \o
                                   <<Event(i, "call", Answer(o)),
                                     EventWith(i, "replaced", "",
                                         remove_markdown_fences(new_tsdoc.value))>>
                        ELSE /\ modified_content' = modified_content
                             /\ log' = log \o <<Event(i, "call", Answer(o)),
                                                Event(i, "unchanged", "")>>
    /\ UNCHANGED <<file_path, yolo, namespace, filter_text, disk, content,
                   content_to_process, matches, tsdoc_comment, declaration,
                   choice, scope_off, writes>>
    /\ UNCHANGED fnVars

\* line 167: no block is left
LoopEnd ==
    /\ pc = "loop"
    /\ i > Len(matches)
    /\ pc' = "final"
    /\ UNCHANGED <<file_path, yolo, namespace, filter_text, disk, content,
                   content_to_process, matches, i, tsdoc_comment, declaration,
                   choice, modified_content, exit_code, scope_off, outcome, log,
                   writes>>
    /\ UNCHANGED fnVars

\* line 232: the working buffer equals the original text
FinalNoChange ==
    /\ pc = "final"
    /\ modified_content = content
    /\ pc' = "done"
    /\ UNCHANGED <<file_path, yolo, namespace, filter_text, disk, content,
                   content_to_process, matches, i, tsdoc_comment, declaration,
                   choice, modified_content, exit_code, scope_off, outcome, log,
                   writes>>
    /\ UNCHANGED fnVars

\* lines 232-233, 254-257: unattended mode writes the buffer
FinalYoloWrite ==
    /\ pc = "final"
    /\ modified_content # content
    /\ yolo
    /\ disk' = modified_content
    /\ writes' = writes + 1
    /\ pc' = "done"
    /\ UNCHANGED <<file_path, yolo, namespace, filter_text, content,
                   content_to_process, matches, i, tsdoc_comment, declaration,
                   choice, modified_content, exit_code, scope_off, outcome, log>>
    /\ UNCHANGED fnVars

\* lines 232-239: interactive mode prints the unified diff
FinalDiff ==
    /\ pc = "final"
    /\ modified_content # content
    /\ ~yolo
    /\ pc' = "confirm"
    /\ log' = Append(log, Event(0, "diff", ""))
    /\ UNCHANGED <<file_path, yolo, namespace, filter_text, disk, content,
                   content_to_process, matches, i, tsdoc_comment, declaration,
                   choice, modified_content, exit_code, scope_off, outcome,
                   writes>>
    /\ UNCHANGED fnVars

\* lines 241-246: an answer that is neither y nor n is asked again
ConfirmInvalid ==
    /\ pc = "confirm"
    /\ \E inp \in Inputs :
          /\ lower(inp) \notin {"y", "n"}
          /\ choice' = lower(inp)
    /\ UNCHANGED <<file_path, yolo, namespace, filter_text, disk, content,
                   content_to_process, matches, i, tsdoc_comment, declaration,
                   modified_content, pc, exit_code, scope_off, outcome, log,
                   writes>>
    /\ UNCHANGED fnVars

\* lines 248-251: y writes the buffer
ConfirmWrite ==
    /\ pc = "confirm"
    /\ \E inp \in Inputs :
          /\ lower(inp) = "y"
          /\ choice' = lower(inp)
    /\ disk' = modified_content
    /\ writes' = writes + 1
    /\ pc' = "done"
    /\ log' = Append(log, Event(0, "confirm", "y"))
    /\ UNCHANGED <<file_path, yolo, namespace, filter_text, content,
                   content_to_process, matches, i, tsdoc_comment, declaration,
                   modified_content, exit_code, scope_off, outcome>>
    /\ UNCHANGED fnVars

ConfirmDecline_Writes ==
    /\ pc = "confirm"
    /\ \E inp \in Inputs :
          /\ lower(inp) = "n"
          /\ choice' = lower(inp)
    /\ disk' = modified_content
    /\ writes' = writes + 1
    /\ pc' = "done"
    /\ log' = Append(log, Event(0, "confirm", "n"))
    /\ UNCHANGED <<file_path, yolo, namespace, filter_text, content,
                   content_to_process, matches, i, tsdoc_comment, declaration,
                   modified_content, exit_code, scope_off, outcome>>
    /\ UNCHANGED fnVars

\* lines 252-253: n discards the buffer
ConfirmDecline ==
    /\ pc = "confirm"
    /\ \E inp \in Inputs :
          /\ lower(inp) = "n"
          /\ choice' = lower(inp)
    /\ pc' = "done"
    /\ log' = Append(log, Event(0, "confirm", "n"))
    /\ UNCHANGED <<file_path, yolo, namespace, filter_text, disk, content,
                   content_to_process, matches, i, tsdoc_comment, declaration,
                   modified_content, exit_code, scope_off, outcome, writes>>
    /\ UNCHANGED fnVars

Next ==
    \/ Usage
    \/ NamespaceNotFound
    \/ Begin
    \/ Filtered
    \/ NoDeclaration
    \/ Display
    \/ Announce
    \/ PromptInvalid
    \/ PromptRun
    \/ PromptSkip
    \/ PromptQuit
    \/ RunTask
    \/ LoopEnd
    \/ FinalNoChange
    \/ FinalYoloWrite
    \/ FinalDiff
    \/ ConfirmInvalid
    \/ ConfirmWrite
    \/ ConfirmDecline

Spec == Init /\ [][Next]_vars

----------------------------------------------------------------------------
\* The functions on their own: the input is drawn in the initial state and
\* one step applies the function.

SessionIdle ==
    /\ file_path = ""
    /\ yolo = FALSE
    /\ namespace = <<>>
    /\ filter_text = ""
    /\ disk = <<>>
    /\ content = <<>>
    /\ content_to_process = <<>>
    /\ matches = <<>>
    /\ i = 1
    /\ tsdoc_comment = ""
    /\ declaration = <<>>
    /\ choice = "unset"
    /\ modified_content = <<>>
    /\ pc = "idle"
    /\ exit_code = 0
    /\ scope_off = 0
    /\ outcome = "none"
    /\ log = <<>>
    /\ writes = 0

\* remove_markdown_fences is called (lines 217, 228) with what run_task
\* returned and the caller found truthy: a stripped, non-empty text
FenceAlphabet == {"F", "L", "n", "w", "D3"}

InitFences ==
    /\ SessionIdle
    /\ fn_pc = "input"
    /\ fn_in \in {t \in BSeq(FenceAlphabet, MaxFenceLen) : t # <<>> /\ strip(t) = t}
    /\ fn_arg = <<>>
    /\ fence_out = <<>>
    /\ ns_out = NsNotFound
    /\ decl_out = <<>>

ApplyFences ==
    /\ fn_pc = "input"
    /\ fence_out' = remove_markdown_fences(fn_in)
    /\ fn_pc' = "output"
    /\ UNCHANGED <<fn_in, fn_arg, ns_out, decl_out>>
    /\ UNCHANGED sessionVars

NextFences == ApplyFences

SpecFences == InitFences /\ [][NextFences]_vars

\* find_namespace_content on any text, for the paths A and A.B
ScanAlphabet == {"nsA{", "nsB{", "{", "}", "a"}

InitScan ==
    /\ SessionIdle
    /\ fn_pc = "input"
    /\ fn_in \in BSeq(ScanAlphabet, MaxScanLen)
    /\ fn_arg \in {<<"A">>, <<"A", "B">>}
    /\ fence_out = <<>>
    /\ ns_out = NsNotFound
    /\ decl_out = <<>>

ApplyScan ==
    /\ fn_pc = "input"
    /\ ns_out' = [found |-> find_namespace_content(fn_in, fn_arg) # None,
                  text |-> find_namespace_content(fn_in, fn_arg),
                  off |-> FindNs(fn_in, fn_arg, 0).off]
    /\ fn_pc' = "output"
    /\ UNCHANGED <<fn_in, fn_arg, fence_out, decl_out>>
    /\ UNCHANGED sessionVars

NextScan == ApplyScan

SpecScan == InitScan /\ [][NextScan]_vars

\* the declaration matcher on any scope, for any block that has a declaration
DeclAlphabet == {"D1", "a", ";", "{", "n", "w"}

InitDecl ==
    /\ SessionIdle
    /\ fn_pc = "input"
    /\ fn_in \in BSeq(DeclAlphabet, MaxDeclLen)
    /\ fn_arg = 0
    /\ fence_out = <<>>
    /\ ns_out = NsNotFound
    /\ decl_out = <<>>

ApplyDecl ==
    /\ fn_pc = "input"
    /\ \E k \in 1..Len(finditer(fn_in, 1)) :
          /\ HasDeclaration(fn_in, finditer(fn_in, 1), k)
          /\ fn_arg' = k
          /\ decl_out' = Declaration(fn_in, finditer(fn_in, 1), k)
    /\ fn_pc' = "output"
    /\ UNCHANGED <<fn_in, fence_out, ns_out>>
    /\ UNCHANGED sessionVars

NextDecl == ApplyDecl

SpecDecl == InitDecl /\ [][NextDecl]_vars

----------------------------------------------------------------------------
\* Vocabulary of the claims

Started == pc \in {"loop", "prompt", "run_task", "final", "confirm", "done"}

HasEvent(e) == \E j \in 1..Len(log) : log[j].ev = e

BackendFailures == {"notfound", "nonzero"}

\* Brace nesting stated by counting, not by scanning: the depth after the
\* first k tokens, and the brace that closes the one opened at m (0: none)
Depth(s, k) ==
    Cardinality({j \in 1..k : IsOpen(s[j])}) - Cardinality({j \in 1..k : s[j] = "}"})

ClosingBrace(s, m) ==
    LET S == {j \in (m + 1)..Len(s) : Depth(s, j) = Depth(s, m) - 1}
    IN IF S = {} THEN 0 ELSE Min(S)

\* first index in lo..hi that holds token t (0: none)
FirstIn(s, t, lo, hi) ==
    LET S == {k \in lo..hi : k <= Len(s) /\ s[k] = t}
    IN IF S = {} THEN 0 ELSE Min(S)

\* the first segment's opening token and closing brace, and the second's,
\* looked for between them
SegA(s, path) == FirstIn(s, NsToken(path[1]), 1, Len(s))

CloseA(s, path) == IF SegA(s, path) = 0 THEN 0 ELSE ClosingBrace(s, SegA(s, path))

SegB(s, path) ==
    IF CloseA(s, path) = 0 THEN 0
    ELSE FirstIn(s, NsToken(path[2]), SegA(s, path) + 1, CloseA(s, path) - 1)

CloseB(s, path) == IF SegB(s, path) = 0 THEN 0 ELSE ClosingBrace(s, SegB(s, path))

Unresolvable(s, path) ==
    \/ SegA(s, path) = 0
    \/ CloseA(s, path) = 0
    \/ Len(path) = 2 /\ (SegB(s, path) = 0 \/ CloseB(s, path) = 0)

----------------------------------------------------------------------------
\* C1: the file is written at most once, only by the step that ends the
\* session after the candidate loop, and only when the working buffer differs
\* from the original text and the run is unattended or the operator answered
\* y to the final prompt; until then, and after an answer of n, the file on
\* disk is what was loaded.
C1_WriteOnceAfterLoop ==
    /\ writes <= 1
    /\ writes = 1 =>
          /\ pc = "done"
          /\ modified_content # content
          /\ yolo \/ choice = "y"
          /\ disk = modified_content
    /\ (writes = 0 /\ pc # "start" /\ file_path # "") => disk = content
    /\ (pc = "done" /\ ~yolo /\ choice = "n") => (writes = 0 /\ disk = content)

C1_Witness ==
    /\ pc = "done"
    /\ ~yolo
    /\ writes = 1
    /\ choice = "y"
    /\ disk # content

\* C2: when every call of the backend was answered OK (whatever the operator
\* skipped, and also when the file holds no documentation block), the working
\* buffer equals the original text, the final prompt is never reached and the
\* file is not rewritten.
AllAnswersOK == \A j \in 1..Len(log) : log[j].ev = "call" => log[j].arg = "OK"

C2_NoOpRoundTrip ==
    (Started /\ AllAnswersOK) =>
        /\ modified_content = content
        /\ pc # "confirm"
        /\ writes = 0
        /\ disk = content

C2_Witness ==
    /\ pc = "done"
    /\ AllAnswersOK
    /\ HasEvent("call")
    /\ HasEvent("skipped")

\* C3: when --namespace is given and a segment of the path is not found in
\* the body of the previous one, or its brace is never closed, the run ends
\* with exit status 1 before any candidate is examined or any backend call is
\* made, and the file on disk is unchanged.
C3_NamespaceNotFoundAborts ==
    (namespace # <<>> /\ pc # "start" /\ Unresolvable(content, namespace)) =>
        /\ pc = "exit"
        /\ exit_code = 1
        /\ log = <<>>
        /\ outcome = "none"
        /\ matches = <<>>
        /\ writes = 0
        /\ disk = content

C3_Witness ==
    /\ pc = "exit"
    /\ namespace = <<"A", "B">>
    /\ CloseA(content, namespace) # 0
    /\ SegB(content, namespace) = 0
    /\ \E k \in 1..Len(content) : content[k] \in DocTokens

\* C4: a backend failure (executable not found, non-zero exit status) leaves
\* the working buffer and the file as they were and the session goes on to
\* the next candidate; the run never aborts after a failure, and an
\* unattended run that ends with a changed buffer has written it.
C4_BackendFailureAbsorbed ==
    /\ [][(pc = "run_task" /\ outcome' \in BackendFailures) =>
              /\ modified_content' = modified_content
              /\ disk' = disk
              /\ pc' = "loop"
              /\ i' = i + 1
              /\ log'[Len(log')].ev = "unchanged"]_vars
    /\ []((\E j \in 1..Len(log) : log[j].arg \in BackendFailures) => pc # "exit")
    /\ []((pc = "done" /\ yolo /\ modified_content # content) =>
              (writes = 1 /\ disk = modified_content))

C4_Witness ==
    /\ pc = "done"
    /\ writes = 1
    /\ \E j, k \in 1..Len(log) :
          /\ j < k
          /\ log[j].ev = "replaced"
          /\ log[k].arg \in BackendFailures

\* C5: after every applied replacement the working buffer is the original
\* text with each replaced candidate's block, at the candidate's own
\* position, exchanged for its new comment, and nothing else changed.
ReplacementAt(p) ==
    {log[j].text : j \in {j \in 1..Len(log) :
                             /\ log[j].ev = "replaced"
                             /\ scope_off + matches[log[j].cand] = p}}

RECURSIVE InPlace(_)
InPlace(p) ==
    IF p > Len(content) THEN <<>>
    ELSE (IF ReplacementAt(p) = {} THEN <<content[p]>>
          ELSE CHOOSE t \in ReplacementAt(p) : TRUE) \o InPlace(p + 1)

C5_ReplacedInPlace == Started => modified_content = InPlace(1)

\* C6: at the per-candidate prompt an empty answer runs the proposer, as the
\* answer y does.
C6_EmptyAnswerRunsProposer ==
    [][(pc = "prompt" /\ choice' = "") => pc' = "run_task"]_vars

\* C7: candidates are handled in source order, each displayed at most once,
\* sent to the backend at most once and ending in at most one of skipped,
\* replaced, unchanged (none: it stays skipped); the loop ends before the last
\* candidate only in interactive mode on the answer q; after a quit nothing
\* more is displayed or sent, the buffer keeps the replacements made so far,
\* and a changed buffer still goes through the diff and the final prompt.
Outcomes3 == {"skipped", "replaced", "unchanged"}

CountOf(k, E) == Cardinality({j \in 1..Len(log) : log[j].cand = k /\ log[j].ev \in E})

QuitAt == Min({j \in 1..Len(log) : log[j].ev = "quit"})

LoopOver == pc \in {"final", "confirm", "done"}

Retained(k) == ~FilteredOut(k) /\ HasDeclaration(content_to_process, matches, k)

C7_State ==
    /\ \A j, k \in 1..Len(log) :
          (j < k /\ log[j].cand > 0 /\ log[k].cand > 0) => log[j].cand <= log[k].cand
    /\ \A k \in 1..Len(matches) :
          /\ CountOf(k, {"display"}) <= 1
          /\ CountOf(k, {"call"}) <= 1
          /\ CountOf(k, Outcomes3) <= 1
          /\ (LoopOver /\ Retained(k) /\ ~HasEvent("quit")) => CountOf(k, Outcomes3) = 1
          /\ ~Retained(k) => CountOf(k, Outcomes3 \cup {"display", "call"}) = 0
    /\ (LoopOver /\ i <= Len(matches)) => (~yolo /\ HasEvent("quit"))
    /\ HasEvent("quit") =>
          /\ ~yolo
          /\ LoopOver
          /\ log[QuitAt].cand = i
          /\ \A j \in 1..Len(log) : j > QuitAt => log[j].ev \in {"diff", "confirm"}
          /\ \A k \in i..Len(matches) : CountOf(k, Outcomes3 \cup {"call"}) = 0
          /\ (pc = "done" /\ modified_content # content) =>
                /\ HasEvent("diff")
                /\ HasEvent("confirm")
                /\ disk = (IF choice = "y" THEN modified_content ELSE content)

C7_CandidateLifecycle ==
    /\ []C7_State
    /\ [][HasEvent("quit") => modified_content' = modified_content]_vars

C7_Witness ==
    /\ pc = "done"
    /\ HasEvent("quit")
    /\ HasEvent("replaced")
    /\ i < Len(matches)
    /\ writes = 1

\* C8: for the path A (and A.B) find_namespace_content returns the text
\* strictly between the opening brace of the first namespace A (of the first
\* namespace B inside A's body) and the brace that closes it, and that text
\* lies strictly inside A's braces.
C8_NamespaceScoping ==
    fn_pc = "output" =>
        /\ (Len(fn_arg) = 1 /\ CloseA(fn_in, fn_arg) # 0) =>
              /\ ns_out.found
              /\ ns_out.text = SubSeq(fn_in, SegA(fn_in, fn_arg) + 1,
                                      CloseA(fn_in, fn_arg) - 1)
              /\ ns_out.off = SegA(fn_in, fn_arg)
        /\ (Len(fn_arg) = 2 /\ SegB(fn_in, fn_arg) # 0) =>
              /\ ns_out.found
              /\ CloseB(fn_in, fn_arg) # 0
              /\ ns_out.text = SubSeq(fn_in, SegB(fn_in, fn_arg) + 1,
                                      CloseB(fn_in, fn_arg) - 1)
              /\ ns_out.off = SegB(fn_in, fn_arg)
              /\ SegA(fn_in, fn_arg) < SegB(fn_in, fn_arg)
              /\ CloseB(fn_in, fn_arg) < CloseA(fn_in, fn_arg)

C8_Witness ==
    /\ fn_pc = "output"
    /\ fn_arg = <<"A", "B">>
    /\ ns_out.found
    /\ ns_out.text # <<>>
    /\ SegA(fn_in, fn_arg) > 1
    /\ CloseA(fn_in, fn_arg) < Len(fn_in)

\* C9: a response that starts with a fence (with an optional language tag on
\* the fence's line), ends with a fence and has no fence in between comes
\* back as the enclosed content, without fences and tag; a response that
\* opens with a fence and does not end with one, or has no fence, comes back
\* unchanged.
Fenced(t) ==
    /\ Len(t) >= 2
    /\ t[1] = "F"
    /\ t[Len(t)] = "F"
    /\ \A k \in 2..(Len(t) - 1) : t[k] # "F"

Tagged(t) == Len(t) >= 4 /\ t[2] = "L" /\ t[3] = "n"

Enclosed(t) == SubSeq(t, IF Tagged(t) THEN 4 ELSE 2, Len(t) - 1)

C9_FencesStripped ==
    fn_pc = "output" =>
        /\ Fenced(fn_in) => strip(fence_out) = strip(Enclosed(fn_in))
        /\ (fn_in[1] = "F" /\ fn_in[Len(fn_in)] # "F") => fence_out = fn_in
        /\ (\A k \in 1..Len(fn_in) : fn_in[k] # "F") => fence_out = fn_in

\* C10 as stated: the declaration runs from the first non-whitespace token
\* after the block to the nearest of a statement terminator, an opening
\* brace, or the next documentation block (the end of the scope when there is
\* none), trimmed; the terminator or brace itself may or may not be counted in.
FirstNonSpace(s, p) == Min({k \in (p + 1)..(Len(s) + 1) : k = Len(s) + 1 \/ ~IsSpace(s[k])})

Nearest(s, from, Stops) ==
    Min({k \in from..(Len(s) + 1) : k = Len(s) + 1 \/ s[k] \in Stops})

\* SubSeq(s, from, to - 1) without its trailing whitespace
Trimmed(s, from, to) ==
    LET S == {k \in from..(to - 1) : ~IsSpace(s[k])}
    IN IF S = {} THEN <<>>
       ELSE SubSeq(s, from, CHOOSE k \in S : \A m \in S : m <= k)

DocAt(s, idx) == finditer(s, 1)[idx]

C10_EndsAtTerminator ==
    fn_pc = "output" =>
        LET from == FirstNonSpace(fn_in, DocAt(fn_in, fn_arg))
            stop == Nearest(fn_in, from, {";", "{"} \cup DocTokens)
        IN decl_out \in {Trimmed(fn_in, from, stop),
                         Trimmed(fn_in, from,
                                 IF stop <= Len(fn_in) /\ fn_in[stop] \in {";", "{"}
                                 THEN stop + 1 ELSE stop)}

\* C10 as amended: the declaration runs from the first non-whitespace token
\* after the block to the nearest of a line break, the next documentation
\* block, or the end of the scope, trimmed.
C10_EndsAtLineBreak ==
    fn_pc = "output" =>
        LET from == FirstNonSpace(fn_in, DocAt(fn_in, fn_arg))
            stop == Nearest(fn_in, from, {"n"} \cup DocTokens)
        IN decl_out = Trimmed(fn_in, from, stop)

C10_Witness ==
    /\ fn_pc = "output"
    /\ \E k \in 1..(Len(decl_out) - 1) : decl_out[k] \in {";", "{"}
    /\ Len(finditer(fn_in, 1)) = 2
    /\ fn_arg = 1

\* C11: in a run with --namespace the text of the file before the scope
\* region and the text after it are the same in the working buffer (and so in
\* the written file) as in the original text, whatever replacements were
\* applied.
TailLen == Len(content) - scope_off - Len(content_to_process)

LastTokens(s, n) == SubSeq(s, Len(s) - n + 1, Len(s))

C11_OutsideScopeUnchanged ==
    (Started /\ namespace # <<>>) =>
        /\ Len(modified_content) >= scope_off + TailLen
        /\ SubSeq(modified_content, 1, scope_off) = SubSeq(content, 1, scope_off)
        /\ LastTokens(modified_content, TailLen) = LastTokens(content, TailLen)
        /\ writes = 1 => disk = modified_content

\* C12: a candidate that is displayed to the operator or sent to the backend
\* has a declaration that is not empty.
C12_DeclarationNotEmpty ==
    pc \in {"prompt", "run_task"} => declaration # <<>>

====
